---- MODULE Spec2Model ----
(***************************************************************************)
(* Ingestion pipeline of spotify_tool.py: file discovery, content-hash     *)
(* deduplication, record normalisation (parse_event) and the per-file      *)
(* write of event rows plus one imports row on a sqlite3 connection.       *)
(***************************************************************************)
EXTENDS Integers, Sequences, FiniteSets, TLC

\* Number of ingest_export calls a behaviour may start.
MaxRuns == 2
\* Number of changes to the export directories made between runs.
MaxFsOps == 1

(***************************************************************************)
(* JSON values.  A scalar is a tagged record; a JSON object is a record of *)
(* its keys (no object of the model has a key "t").  A timestamp string    *)
(* carries its format, its wall-clock hour and its written offset.         *)
(***************************************************************************)
JNull == [t |-> "null", v |-> 0]
JInt(n) == [t |-> "int", v |-> n]
\* a string int() does not accept; JStr(0) is the empty string
JStr(n) == [t |-> "str", v |-> n]
\* a string of digits with value n, which int() accepts
JNumStr(n) == [t |-> "numstr", v |-> n]
\* fmt: "iso" (ISO-8601), "loose" (only the permissive parser reads it),
\* "bad" (no parser reads it)
Ts(fmt, wall, hasOff, off) ==
    [t |-> "ts", fmt |-> fmt, wall |-> wall, hasOff |-> hasOff, off |-> off]

IsDict(e) == "t" \notin DOMAIN e

\* Python truthiness of a JSON value
Truthy(v) ==
    CASE v.t = "null" -> FALSE
      [] v.t = "int" -> v.v # 0
      [] v.t = "str" -> v.v # 0
      [] OTHER -> TRUE

\* dict.get(key): None when the key is absent
Get(obj, k) == IF k \in DOMAIN obj THEN obj[k] ELSE JNull

\* Python's  a or b
Or(a, b) == IF Truthy(a) THEN a ELSE b

\* int(v): the integer, or an exception (ValueError / TypeError)
ToInt(v) ==
    CASE v.t = "int" -> [ok |-> TRUE, v |-> v.v]
      [] v.t = "numstr" -> [ok |-> TRUE, v |-> v.v]
      [] OTHER -> [ok |-> FALSE, v |-> 0]

(***************************************************************************)
(* Time.  Instants and wall clocks are whole hours on a short time line    *)
(* that holds one summer-time period of Europe/Paris.                      *)
(***************************************************************************)
\* UTC hour at which Paris switches to summer time (+02:00)
DstOnUtc == 10
\* UTC hour at which Paris switches back to standard time (+01:00)
DstOffUtc == 20
StdOffset == 1
DstOffset == 2

\* utcoffset of PARIS for an aware instant
ParisOffsetAtUtc(u) == IF DstOnUtc <= u /\ u < DstOffUtc THEN DstOffset ELSE StdOffset

\* utcoffset of PARIS for a wall clock attached with replace(tzinfo=PARIS):
\* dateutil compares the wall clock with the transition times written in the
\* wall clock in force before each transition (fold = 0)
ParisOffsetAtWall(w) ==
    IF DstOnUtc + StdOffset <= w /\ w < DstOffUtc + DstOffset THEN DstOffset ELSE StdOffset

\* to_iso: the wall clock and the offset of an aware datetime
to_iso(wall, off) == [wall |-> wall, off |-> off]

\* dtparser.parse accepts ISO and loose formats, dtparser.isoparse ISO only;
\* both raise on anything that is not such a string
ParseOk(v) == v.t = "ts" /\ v.fmt \in {"iso", "loose"}
IsoParseOk(v) == v.t = "ts" /\ v.fmt = "iso"

(***************************************************************************)
(* parse_event                                                             *)
(***************************************************************************)
NotAnEvent == [kind |-> "none"]
Raised == [kind |-> "raise"]
Row(r) == [kind |-> "row", row |-> r]

\* the old branch with the test  ms < 0
ParseOldZeroKept(obj) ==
    LET end_time == obj["endTime"]
        localOff == IF ~end_time.hasOff
                    THEN ParisOffsetAtWall(end_time.wall)
                    ELSE ParisOffsetAtUtc(end_time.wall - end_time.off)
        localWall == IF ~end_time.hasOff
                     THEN end_time.wall
                     ELSE (end_time.wall - end_time.off) + localOff
        msv == ToInt(Or(Get(obj, "msPlayed"), JInt(0)))
    IN  IF ~ParseOk(end_time) \/ ~msv.ok THEN Raised
        ELSE IF msv.v < 0 THEN NotAnEvent
        ELSE Row([played_at_utc |-> to_iso(localWall - localOff, 0),
                  played_at_local |-> to_iso(localWall, localOff),
                  track_name |-> Get(obj, "trackName"),
                  artist_name |-> Get(obj, "artistName"),
                  album_name |-> JNull,
                  ms_played |-> msv.v,
                  platform |-> JNull,
                  content_type |-> "music",
                  raw_source |-> "streaming_history_old"])

ParseOld(obj) ==
    IF ~ParseOk(obj["endTime"]) THEN Raised
    ELSE
      LET end_time == obj["endTime"]
          localOff == IF ~end_time.hasOff
                      THEN ParisOffsetAtWall(end_time.wall)
                      ELSE ParisOffsetAtUtc(end_time.wall - end_time.off)
          localWall == IF ~end_time.hasOff
                       THEN end_time.wall
                       ELSE (end_time.wall - end_time.off) + localOff
          utcWall == localWall - localOff
          msv == ToInt(Or(Get(obj, "msPlayed"), JInt(0)))
      IN  IF ~msv.ok THEN Raised
          ELSE IF msv.v <= 0 THEN NotAnEvent
          ELSE Row([played_at_utc |-> to_iso(utcWall, 0),
                    played_at_local |-> to_iso(localWall, localOff),
                    track_name |-> Get(obj, "trackName"),
                    artist_name |-> Get(obj, "artistName"),
                    album_name |-> JNull,
                    ms_played |-> msv.v,
                    platform |-> JNull,
                    content_type |-> "music",
                    raw_source |-> "streaming_history_old"])

\* the new branch with content_type decided by where the track name came
\* from: podcast when it was taken from the episode fields
ParseNewPodcastByTrack(obj) ==
    IF ~IsoParseOk(obj["ts"]) THEN Raised
    ELSE
      LET ts_dt == obj["ts"]
          utcWall == IF ts_dt.hasOff THEN ts_dt.wall - ts_dt.off ELSE ts_dt.wall
          localOff == ParisOffsetAtUtc(utcWall)
          msv == ToInt(Or(Or(Get(obj, "ms_played"), Get(obj, "msPlayed")), JInt(0)))
          track0 == Or(Get(obj, "master_metadata_track_name"), Get(obj, "trackName"))
          artist0 == Or(Get(obj, "master_metadata_album_artist_name"), Get(obj, "artistName"))
          album == Or(Get(obj, "master_metadata_album_album_name"), Get(obj, "albumName"))
          track == IF ~Truthy(track0)
                   THEN Or(Get(obj, "episode_name"), Get(obj, "episode_title"))
                   ELSE track0
          artist == IF ~Truthy(artist0)
                    THEN Or(Get(obj, "episode_show_name"), Get(obj, "show_name"))
                    ELSE artist0
          podcast == ~Truthy(track0) /\ Truthy(track)
      IN  IF ~msv.ok THEN Raised
          ELSE IF msv.v <= 0 THEN NotAnEvent
          ELSE Row([played_at_utc |-> to_iso(utcWall, 0),
                    played_at_local |-> to_iso(utcWall + localOff, localOff),
                    track_name |-> track,
                    artist_name |-> artist,
                    album_name |-> album,
                    ms_played |-> msv.v,
                    platform |-> Get(obj, "platform"),
                    content_type |-> IF podcast THEN "podcast" ELSE "music",
                    raw_source |-> "streaming_history_new"])

\* the new branch with the episode fields looked up before the track fields
\* and the show fields before the artist fields
ParseNewEpisodeFirst(obj) ==
    IF ~IsoParseOk(obj["ts"]) THEN Raised
    ELSE
      LET ts_dt == obj["ts"]
          utcWall == IF ts_dt.hasOff THEN ts_dt.wall - ts_dt.off ELSE ts_dt.wall
          localOff == ParisOffsetAtUtc(utcWall)
          msv == ToInt(Or(Or(Get(obj, "ms_played"), Get(obj, "msPlayed")), JInt(0)))
          track0 == Or(Get(obj, "episode_name"), Get(obj, "episode_title"))
          artist0 == Or(Get(obj, "episode_show_name"), Get(obj, "show_name"))
          album == Or(Get(obj, "master_metadata_album_album_name"), Get(obj, "albumName"))
          track == IF ~Truthy(track0)
                   THEN Or(Get(obj, "master_metadata_track_name"), Get(obj, "trackName"))
                   ELSE track0
          artist == IF ~Truthy(artist0)
                    THEN Or(Get(obj, "master_metadata_album_artist_name"), Get(obj, "artistName"))
                    ELSE artist0
          podcast == Truthy(Or(Or(Get(obj, "spotify_episode_uri"), Get(obj, "episode_name")),
                               Get(obj, "episode_show_name")))
      IN  IF ~msv.ok THEN Raised
          ELSE IF msv.v <= 0 THEN NotAnEvent
          ELSE Row([played_at_utc |-> to_iso(utcWall, 0),
                    played_at_local |-> to_iso(utcWall + localOff, localOff),
                    track_name |-> track,
                    artist_name |-> artist,
                    album_name |-> album,
                    ms_played |-> msv.v,
                    platform |-> Get(obj, "platform"),
                    content_type |-> IF podcast THEN "podcast" ELSE "music",
                    raw_source |-> "streaming_history_new"])

ParseNew(obj) ==
    IF ~IsoParseOk(obj["ts"]) THEN Raised
    ELSE
      LET ts_dt == obj["ts"]
          utcWall == IF ts_dt.hasOff THEN ts_dt.wall - ts_dt.off ELSE ts_dt.wall
          localOff == ParisOffsetAtUtc(utcWall)
          msv == ToInt(Or(Or(Get(obj, "ms_played"), Get(obj, "msPlayed")), JInt(0)))
          track0 == Or(Get(obj, "master_metadata_track_name"), Get(obj, "trackName"))
          artist0 == Or(Get(obj, "master_metadata_album_artist_name"), Get(obj, "artistName"))
          album == Or(Get(obj, "master_metadata_album_album_name"), Get(obj, "albumName"))
          track == IF ~Truthy(track0)
                   THEN Or(Get(obj, "episode_name"), Get(obj, "episode_title"))
                   ELSE track0
          artist == IF ~Truthy(artist0)
                    THEN Or(Get(obj, "episode_show_name"), Get(obj, "show_name"))
                    ELSE artist0
          podcast == Truthy(Or(Or(Get(obj, "spotify_episode_uri"), Get(obj, "episode_name")),
                               Get(obj, "episode_show_name")))
      IN  IF ~msv.ok THEN Raised
          ELSE IF msv.v <= 0 THEN NotAnEvent
          ELSE Row([played_at_utc |-> to_iso(utcWall, 0),
                    played_at_local |-> to_iso(utcWall + localOff, localOff),
                    track_name |-> track,
                    artist_name |-> artist,
                    album_name |-> album,
                    ms_played |-> msv.v,
                    platform |-> Get(obj, "platform"),
                    content_type |-> IF podcast THEN "podcast" ELSE "music",
                    raw_source |-> "streaming_history_new"])

\* the two tests in the other order: the new schema first
parse_event_new_first(obj) ==
    IF "ts" \in DOMAIN obj /\ ("ms_played" \in DOMAIN obj \/ "msPlayed" \in DOMAIN obj)
    THEN ParseNew(obj)
    ELSE IF "endTime" \in DOMAIN obj /\ "msPlayed" \in DOMAIN obj THEN ParseOld(obj)
    ELSE NotAnEvent

parse_event(obj) ==
    IF "endTime" \in DOMAIN obj /\ "msPlayed" \in DOMAIN obj THEN ParseOld(obj)
    ELSE IF "ts" \in DOMAIN obj /\ ("ms_played" \in DOMAIN obj \/ "msPlayed" \in DOMAIN obj)
         THEN ParseNew(obj)
    ELSE NotAnEvent

(***************************************************************************)
(* Export files.  A file's bytes are named by a string; FileJson gives     *)
(* what json.loads makes of them.                                          *)
(***************************************************************************)
OldRec(ts, ms) == [endTime |-> ts, msPlayed |-> ms, trackName |-> JStr(1), artistName |-> JStr(2)]
NewRec(ts, ms) == [ts |-> ts, ms_played |-> ms, master_metadata_track_name |-> JStr(3)]
Podcast(ts, ms) == [ts |-> ts, msPlayed |-> ms, episode_name |-> JStr(4), episode_show_name |-> JStr(5)]

Contents == {"good", "podcast", "zero", "notjson", "object", "badts", "badms"}

FileJson(bytes) ==
    CASE bytes = "good" ->
           [valid |-> TRUE, list |-> TRUE,
            items |-> << OldRec(Ts("loose", 12, FALSE, 0), JInt(3)),
                         OldRec(Ts("iso", 5, FALSE, 0), JInt(0)),
                         JInt(7),
                         NewRec(Ts("iso", 8, TRUE, 0), JInt(-5)),
                         [unrelated |-> JStr(1)],
                         NewRec(Ts("iso", 8, TRUE, 0), JNumStr(2)) >>]
      [] bytes = "podcast" ->
           [valid |-> TRUE, list |-> TRUE,
            items |-> << Podcast(Ts("iso", 15, FALSE, 0), JInt(6)) >>]
      [] bytes = "zero" ->
           [valid |-> TRUE, list |-> TRUE,
            items |-> << OldRec(Ts("iso", 5, TRUE, 2), JNull),
                         OldRec(Ts("iso", 5, FALSE, 0), JInt(0)),
                         OldRec(Ts("loose", 5, FALSE, 0), JInt(-5)),
                         OldRec(Ts("iso", 5, FALSE, 0), JNumStr(0)),
                         OldRec(Ts("iso", 5, FALSE, 0), JStr(0)),
                         NewRec(Ts("iso", 8, TRUE, 0), JInt(0)),
                         NewRec(Ts("iso", 8, FALSE, 0), JInt(-5)),
                         NewRec(Ts("iso", 8, TRUE, 0), JNull),
                         Podcast(Ts("iso", 8, TRUE, 0), JInt(0)),
                         [ts |-> Ts("iso", 8, TRUE, 0), ms_played |-> JNull, msPlayed |-> JInt(-5)],
                         [ts |-> Ts("iso", 8, TRUE, 0)],
                         [msPlayed |-> JInt(0)] >>]
      [] bytes = "notjson" -> [valid |-> FALSE, list |-> FALSE, items |-> << >>]
      [] bytes = "object" -> [valid |-> TRUE, list |-> FALSE, items |-> << >>]
      [] bytes = "badts" ->
           [valid |-> TRUE, list |-> TRUE,
            items |-> << OldRec(Ts("iso", 5, FALSE, 0), JInt(4)),
                         OldRec(Ts("bad", 0, FALSE, 0), JInt(4)),
                         NewRec(Ts("iso", 9, TRUE, 0), JInt(1)) >>]
      [] OTHER -> \* "badms"
           [valid |-> TRUE, list |-> TRUE,
            items |-> << NewRec(Ts("iso", 9, TRUE, 0), JInt(1)),
                         NewRec(Ts("iso", 9, TRUE, 0), JStr(6)) >>]

Absent == "absent"

(***************************************************************************)
(* The export directories: two roots and the paths below them.             *)
(***************************************************************************)
Roots == {"r1", "r2"}
P1 == "r1/StreamingHistory0.json"
P2 == "r1/endsong_0.json"
P3 == "r2/my_endsong_1.json"
Paths == {P1, P2, P3}
\* the order in which rglob walks the tree
PathOrder == << P1, P2, P3 >>
RootOf(p) == IF p = P3 THEN "r2" ELSE "r1"

patterns == << "StreamingHistory*.json", "*StreamingHistory*.json", "endsong*.json", "*endsong*.json" >>

\* fnmatch of the file name of p against the pattern
Matches(pat, p) ==
    CASE p = P1 -> pat \in {"StreamingHistory*.json", "*StreamingHistory*.json"}
      [] p = P2 -> pat \in {"endsong*.json", "*endsong*.json"}
      [] OTHER -> pat = "*endsong*.json"

\* hashlib.sha256 of a byte string (distinct bytes, distinct digests)
sha256(bytes) == << "sha256", bytes >>

\* a digest of the path instead of the bytes
sha256_of_path(tree, path) == sha256(path)

\* sha256_file: the digest of the bytes read from the file at path
sha256_file(tree, path) == sha256(tree[path])

RECURSIVE Unique(_, _)
\* the "unique" loop of find_candidate_files: first occurrences, in order
Unique(s, seen) ==
    IF s = << >> THEN << >>
    ELSE IF Head(s) \in seen THEN Unique(Tail(s), seen)
    ELSE << Head(s) >> \o Unique(Tail(s), seen \cup {Head(s)})

RECURSIVE Concat(_)
Concat(ss) == IF ss = << >> THEN << >> ELSE Head(ss) \o Concat(Tail(ss))

\* export_root.rglob(pat) over the files present in the tree
rglob(tree, root, pat) ==
    SelectSeq(PathOrder, LAMBDA p : RootOf(p) = root /\ tree[p] # Absent /\ Matches(pat, p))

find_candidate_files(tree, root) ==
    Unique(Concat([i \in 1..Len(patterns) |-> rglob(tree, root, patterns[i])]), {})

(***************************************************************************)
(* State                                                                   *)
(***************************************************************************)
Conns == {"c1", "c2"}

VARIABLES
    fs,          \* path -> bytes of the file, or Absent
    unreadable,  \* the paths whose file cannot be opened for reading
    fsOps,       \* changes made to the directories so far
    dbEvents,    \* committed rows of table events, in id order
    dbImports,   \* committed rows of table imports, in id order
    txEvents,    \* connection -> rows inserted in its open transaction
    txImports,   \* connection -> imports rows inserted in its open transaction
    proc,        \* connection -> the ingest_export call running on it
    hist,        \* the ingest_export calls started so far, in order
    obj,         \* the argument of a call of parse_event made on its own
    event,       \* what that call gave: a row, None or an exception
    df,          \* the events load_df hands to report, in row order
    top_art      \* the top-artists series report computed from df

\* the variables of the calls of parse_event and report made on their own
calls == << obj, event, df, top_art >>

vars == << fs, unreadable, fsOps, dbEvents, dbImports, txEvents, txImports, proc, hist,
           obj, event, df, top_art >>

\* parse_event has not been called, or has not returned yet
NotCalled == [kind |-> "pending"]

\* report has not computed the series yet
NotComputed == [done |-> FALSE, series |-> << >>]

\* no call of parse_event or report on its own
NoCalls ==
    /\ obj = << >>
    /\ event = NotCalled
    /\ df = << >>
    /\ top_art = NotComputed

NoSummary ==
    [files_found |-> 0, new_files_imported |-> 0, files_skipped |-> 0, rows_inserted |-> 0]

IdleProc ==
    [pc |-> "idle", run |-> 0, export_root |-> "r1", files |-> << >>, i |-> 1,
     h |-> sha256(Absent), data |-> [valid |-> FALSE, list |-> FALSE, items |-> << >>],
     rows |-> << >>, new_files |-> 0, skipped |-> 0, rows_total |-> 0, log |-> << >>]

\* The export directories before the first run.
InitTrees ==
    {t \in [Paths -> Contents \cup {Absent}] :
        /\ t[P1] \in {"good", "zero", "notjson", "object", "badts"}
        /\ t[P2] \in {"good", "podcast", "badms"}
        /\ t[P3] = Absent}

\* connect + init_db on a fresh database file: both tables empty
Init ==
    /\ fs \in InitTrees
    /\ unreadable = {}
    /\ fsOps = 0
    /\ dbEvents = << >>
    /\ dbImports = << >>
    /\ txEvents = [c \in Conns |-> << >>]
    /\ txImports = [c \in Conns |-> << >>]
    /\ proc = [c \in Conns |-> IdleProc]
    /\ hist = << >>
    /\ NoCalls

\* what a statement on connection c reads: the committed rows and its own
visibleImports(c) == dbImports \o txImports[c]

\* a lookup that reads only the newest imports row
already_imported_newest(c, file_hash) ==
    /\ visibleImports(c) # << >>
    /\ visibleImports(c)[Len(visibleImports(c))].file_hash = file_hash

already_imported(c, file_hash) ==
    \E k \in 1..Len(visibleImports(c)) : visibleImports(c)[k].file_hash = file_hash

\* a column file_hash declared without UNIQUE
UniqueHashUnchecked(c, file_hash) == TRUE

\* file_hash TEXT NOT NULL UNIQUE: may a row with this file_hash be inserted
UniqueHashOk(c, file_hash) ==
    \A k \in 1..Len(visibleImports(c)) : visibleImports(c)[k].file_hash # file_hash

DbNow == [events |-> dbEvents, imports |-> dbImports]

\* the connection has written in a transaction it has not ended
InTx(c) == txEvents[c] # << >> \/ txImports[c] # << >>

\* sqlite admits one writer: no other connection holds a write transaction
LockFree(c) == \A d \in Conns \ {c} : ~InTx(d)

(***************************************************************************)
(* Changes to the directories, made while no ingestion runs.               *)
(***************************************************************************)
AllIdle == \A c \in Conns : proc[c].pc = "idle"

\* cp p q
CopyFile(p, q) ==
    /\ AllIdle /\ fsOps < MaxFsOps /\ Len(hist) < MaxRuns
    /\ p # q /\ fs[p] # Absent /\ p \notin unreadable
    /\ fs' = [fs EXCEPT ![q] = fs[p]]
    /\ unreadable' = unreadable \ {q}
    /\ fsOps' = fsOps + 1
    /\ UNCHANGED << calls, dbEvents, dbImports, txEvents, txImports, proc, hist >>

\* chmod a-r p
MakeUnreadable(p) ==
    /\ AllIdle /\ fsOps < MaxFsOps /\ Len(hist) < MaxRuns
    /\ fs[p] # Absent /\ p \notin unreadable
    /\ unreadable' = unreadable \cup {p}
    /\ fsOps' = fsOps + 1
    /\ UNCHANGED << calls, fs, dbEvents, dbImports, txEvents, txImports, proc, hist >>

\* chmod a+r p
MakeReadable(p) ==
    /\ AllIdle /\ Len(hist) < MaxRuns
    /\ p \in unreadable
    /\ unreadable' = unreadable \ {p}
    /\ UNCHANGED << calls, fs, fsOps, dbEvents, dbImports, txEvents, txImports, proc, hist >>

(***************************************************************************)
(* ingest_export on connection c, one action per statement that reads or   *)
(* writes the directories or the database.                                 *)
(***************************************************************************)
\* The call ends: it returns its summary, raises, or its process is killed.
\* cause: what raised ("read_error": the OSError of line 25, "record": an
\* exception of parse_event, "storage": an sqlite3 error); at: the index of
\* the file in hand; intx: the connection's transaction held rows.
EndRun(c, outcome, cause, summary) ==
    [hist EXCEPT ![proc[c].run].outcome = outcome,
                 ![proc[c].run].cause = cause,
                 ![proc[c].run].at = proc[c].i,
                 ![proc[c].run].intx = (txEvents[c] # << >> \/ txImports[c] # << >>),
                 ![proc[c].run].summary = summary,
                 ![proc[c].run].db1 = DbNow]

Summary(c) ==
    [files_found |-> Len(proc[c].files),
     new_files_imported |-> proc[c].new_files,
     files_skipped |-> proc[c].skipped,
     rows_inserted |-> proc[c].rows_total]

\* lines 178-183
StartRun(c, root) ==
    /\ proc[c].pc = "idle"
    /\ Len(hist) < MaxRuns
    /\ proc' = [proc EXCEPT ![c] =
                  [IdleProc EXCEPT !.pc = "loop", !.run = Len(hist) + 1,
                                   !.export_root = root,
                                   !.files = find_candidate_files(fs, root)]]
    /\ hist' = Append(hist, [conn |-> c, root |-> root, fs0 |-> fs, unreadable0 |-> unreadable,
                             db0 |-> DbNow, db1 |-> DbNow, outcome |-> "running",
                             cause |-> "none", at |-> 0, intx |-> FALSE, summary |-> NoSummary])
    /\ UNCHANGED << calls, fs, unreadable, fsOps, dbEvents, dbImports, txEvents, txImports >>

AtFile(c) == proc[c].pc = "loop" /\ proc[c].i <= Len(proc[c].files)
CurFile(c) == proc[c].files[proc[c].i]

\* line 186, the file cannot be opened: the OSError leaves ingest_export
HashFails(c) ==
    /\ AtFile(c)
    /\ CurFile(c) \in unreadable
    /\ proc' = [proc EXCEPT ![c] = IdleProc]
    /\ hist' = EndRun(c, "raised", "read_error", NoSummary)
    /\ UNCHANGED << calls, fs, unreadable, fsOps, dbEvents, dbImports, txEvents, txImports >>

\* a loop that decodes and normalises the file before it looks the digest up
SkipFileAfterDecode(c) ==
    /\ AtFile(c)
    /\ CurFile(c) \notin unreadable
    /\ already_imported(c, sha256_file(fs, CurFile(c)))
    /\ proc' = [proc EXCEPT ![c].skipped = @ + 1, ![c].i = @ + 1,
                            ![c].log = @ \o << [op |-> "decode", i |-> proc[c].i],
                                               [op |-> "parse", i |-> proc[c].i],
                                               [op |-> "skip", i |-> proc[c].i] >>]
    /\ UNCHANGED << calls, fs, unreadable, fsOps, dbEvents, dbImports, txEvents, txImports, hist >>

\* lines 186-189, an imports row with the digest exists
SkipFile(c) ==
    /\ AtFile(c)
    /\ CurFile(c) \notin unreadable
    /\ already_imported(c, sha256_file(fs, CurFile(c)))
    /\ proc' = [proc EXCEPT ![c].skipped = @ + 1, ![c].i = @ + 1,
                            ![c].log = Append(@, [op |-> "skip", i |-> proc[c].i])]
    /\ UNCHANGED << calls, fs, unreadable, fsOps, dbEvents, dbImports, txEvents, txImports, hist >>

\* lines 186-187, no imports row with the digest
NewFile(c) ==
    /\ AtFile(c)
    /\ CurFile(c) \notin unreadable
    /\ ~already_imported(c, sha256_file(fs, CurFile(c)))
    /\ proc' = [proc EXCEPT ![c].pc = "read", ![c].h = sha256_file(fs, CurFile(c)),
                            ![c].log = Append(@, [op |-> "new", i |-> proc[c].i])]
    /\ UNCHANGED << calls, fs, unreadable, fsOps, dbEvents, dbImports, txEvents, txImports, hist >>

\* json.loads(f.read_text()), or [] on any exception
json_loads_or_empty(bytes) ==
    IF FileJson(bytes).valid THEN FileJson(bytes)
    ELSE [valid |-> TRUE, list |-> TRUE, items |-> << >>]

\* lines 191-194
ReadJson(c) ==
    /\ proc[c].pc = "read"
    /\ proc' = [proc EXCEPT ![c].pc = "parse",
                            ![c].data = json_loads_or_empty(fs[CurFile(c)]),
                            ![c].log = Append(@, [op |-> "decode", i |-> proc[c].i])]
    /\ UNCHANGED << calls, fs, unreadable, fsOps, dbEvents, dbImports, txEvents, txImports, hist >>

\* the dicts of data, in order, when data is a list
Dicts(data) == IF data.list THEN SelectSeq(data.items, IsDict) ELSE << >>

\* index of the first dict on which parse_event raises, 0 if there is none
FirstRaise(ds) ==
    LET bad == {k \in 1..Len(ds) : parse_event(ds[k]).kind = "raise"}
    IN  IF bad = {} THEN 0 ELSE CHOOSE k \in bad : \A j \in bad : k <= j

RECURSIVE Accepted(_)
\* lines 196-202: the rows parse_event returns, in order
Accepted(ds) ==
    IF ds = << >> THEN << >>
    ELSE LET e == parse_event(Head(ds))
         IN  (IF e.kind = "row" THEN << e.row >> ELSE << >>) \o Accepted(Tail(ds))

\* lines 196-202, parse_event raises on one of the records
ParseRaises(c) ==
    /\ proc[c].pc = "parse"
    /\ FirstRaise(Dicts(proc[c].data)) # 0
    /\ proc' = [proc EXCEPT ![c] = IdleProc]
    /\ hist' = EndRun(c, "raised", "record", NoSummary)
    /\ UNCHANGED << calls, fs, unreadable, fsOps, dbEvents, dbImports, txEvents, txImports >>

\* lines 196-202
ParseRows(c) ==
    /\ proc[c].pc = "parse"
    /\ FirstRaise(Dicts(proc[c].data)) = 0
    /\ proc' = [proc EXCEPT ![c].pc = "insert_events",
                            ![c].rows = Accepted(Dicts(proc[c].data)),
                            ![c].log = Append(@, [op |-> "parse", i |-> proc[c].i])]
    /\ UNCHANGED << calls, fs, unreadable, fsOps, dbEvents, dbImports, txEvents, txImports, hist >>

\* unit names the call and the file whose statement inserted the row (the
\* row's id tells as much in the database)
EventRows(rows, h, unit) ==
    [k \in 1..Len(rows) |-> [row |-> rows[k], source_file_hash |-> h, unit |-> unit]]

Unit(c) == << proc[c].run, proc[c].i >>

\* executemany on a connection in autocommit mode: the rows are committed
\* by the statement itself
InsertEventsAutocommit(c) ==
    /\ proc[c].pc = "insert_events"
    /\ dbEvents' = dbEvents \o EventRows(proc[c].rows, proc[c].h, Unit(c))
    /\ proc' = [proc EXCEPT ![c].pc = "insert_import"]
    /\ UNCHANGED << calls, fs, unreadable, fsOps, dbImports, txEvents, txImports, hist >>

\* lines 204-216: executemany opens the transaction and inserts the rows
InsertEvents(c) ==
    /\ proc[c].pc = "insert_events"
    /\ proc[c].rows = << >> \/ LockFree(c)
    /\ txEvents' = [txEvents EXCEPT ![c] = @ \o EventRows(proc[c].rows, proc[c].h, Unit(c))]
    /\ proc' = [proc EXCEPT ![c].pc = "insert_import"]
    /\ UNCHANGED << calls, fs, unreadable, fsOps, dbEvents, dbImports, txImports, hist >>

\* an imports row keyed by the path instead of the digest
ImportRowByPath(c) ==
    [export_root |-> proc[c].export_root, file_path |-> CurFile(c),
     file_hash |-> sha256(CurFile(c)), rows_inserted |-> Len(proc[c].rows), unit |-> Unit(c)]

ImportRow(c) ==
    [export_root |-> proc[c].export_root, file_path |-> CurFile(c),
     file_hash |-> proc[c].h, rows_inserted |-> Len(proc[c].rows), unit |-> Unit(c)]

\* the imports row written only for a file that gave rows
InsertImportIfRows(c) ==
    /\ proc[c].pc = "insert_import"
    /\ UniqueHashOk(c, proc[c].h)
    /\ txImports' = [txImports EXCEPT ![c] =
                        IF proc[c].rows = << >> THEN @ ELSE Append(@, ImportRow(c))]
    /\ proc' = [proc EXCEPT ![c].pc = "commit"]
    /\ UNCHANGED << calls, fs, unreadable, fsOps, dbEvents, dbImports, txEvents, hist >>

\* lines 218-225
InsertImport(c) ==
    /\ proc[c].pc = "insert_import"
    /\ LockFree(c)
    /\ UniqueHashOk(c, proc[c].h)
    /\ txImports' = [txImports EXCEPT ![c] = Append(@, ImportRow(c))]
    /\ proc' = [proc EXCEPT ![c].pc = "commit"]
    /\ UNCHANGED << calls, fs, unreadable, fsOps, dbEvents, dbImports, txEvents, hist >>

\* lines 219-225, file_hash UNIQUE (line 48) rejects the row: IntegrityError
\* leaves ingest_export with the transaction still open
UniqueViolation(c) ==
    /\ proc[c].pc = "insert_import"
    /\ LockFree(c)
    /\ ~UniqueHashOk(c, proc[c].h)
    /\ proc' = [proc EXCEPT ![c] = IdleProc]
    /\ hist' = EndRun(c, "raised", "storage", NoSummary)
    /\ UNCHANGED << calls, fs, unreadable, fsOps, dbEvents, dbImports, txEvents, txImports >>

\* lines 205 and 219, another connection holds the write lock: the statement
\* ends with OperationalError (database is locked)
Busy(c) ==
    /\ \/ proc[c].pc = "insert_events" /\ proc[c].rows # << >>
       \/ proc[c].pc = "insert_import"
    /\ ~LockFree(c)
    /\ proc' = [proc EXCEPT ![c] = IdleProc]
    /\ hist' = EndRun(c, "raised", "storage", NoSummary)
    /\ UNCHANGED << calls, fs, unreadable, fsOps, dbEvents, dbImports, txEvents, txImports >>

\* the commit followed by a count of the file only when it gave rows
CommitCountIfRows(c) ==
    /\ proc[c].pc = "commit"
    /\ dbEvents' = dbEvents \o txEvents[c]
    /\ dbImports' = dbImports \o txImports[c]
    /\ txEvents' = [txEvents EXCEPT ![c] = << >>]
    /\ txImports' = [txImports EXCEPT ![c] = << >>]
    /\ proc' = [proc EXCEPT ![c].pc = "loop", ![c].i = @ + 1,
                            ![c].new_files = IF proc[c].rows = << >> THEN @ ELSE @ + 1,
                            ![c].rows_total = @ + Len(proc[c].rows),
                            ![c].log = Append(@, [op |-> "commit", i |-> proc[c].i])]
    /\ UNCHANGED << calls, fs, unreadable, fsOps, hist >>

\* event rows written the way to_sql(if_exists="replace") writes them: the
\* rows of the file take the place of the table's rows
CommitReplacingEvents(c) ==
    /\ proc[c].pc = "commit"
    /\ dbEvents' = IF txEvents[c] = << >> THEN dbEvents ELSE txEvents[c]
    /\ dbImports' = dbImports \o txImports[c]
    /\ txEvents' = [txEvents EXCEPT ![c] = << >>]
    /\ txImports' = [txImports EXCEPT ![c] = << >>]
    /\ proc' = [proc EXCEPT ![c].pc = "loop", ![c].i = @ + 1,
                            ![c].new_files = @ + 1,
                            ![c].rows_total = @ + Len(proc[c].rows),
                            ![c].log = Append(@, [op |-> "commit", i |-> proc[c].i])]
    /\ UNCHANGED << calls, fs, unreadable, fsOps, hist >>

\* lines 226-229
Commit(c) ==
    /\ proc[c].pc = "commit"
    /\ dbEvents' = dbEvents \o txEvents[c]
    /\ dbImports' = dbImports \o txImports[c]
    /\ txEvents' = [txEvents EXCEPT ![c] = << >>]
    /\ txImports' = [txImports EXCEPT ![c] = << >>]
    /\ proc' = [proc EXCEPT ![c].pc = "loop", ![c].i = @ + 1,
                            ![c].new_files = @ + 1,
                            ![c].rows_total = @ + Len(proc[c].rows),
                            ![c].log = Append(@, [op |-> "commit", i |-> proc[c].i])]
    /\ UNCHANGED << calls, fs, unreadable, fsOps, hist >>

\* lines 231-237
Return(c) ==
    /\ proc[c].pc = "loop"
    /\ proc[c].i > Len(proc[c].files)
    /\ proc' = [proc EXCEPT ![c] = IdleProc]
    /\ hist' = EndRun(c, "returned", "none", Summary(c))
    /\ UNCHANGED << calls, fs, unreadable, fsOps, dbEvents, dbImports, txEvents, txImports >>

\* The process is killed: sqlite drops the connection's open transaction.
Crash(c) ==
    /\ proc[c].pc # "idle"
    /\ txEvents' = [txEvents EXCEPT ![c] = << >>]
    /\ txImports' = [txImports EXCEPT ![c] = << >>]
    /\ proc' = [proc EXCEPT ![c] = IdleProc]
    /\ hist' = EndRun(c, "crashed", "none", NoSummary)
    /\ UNCHANGED << calls, fs, unreadable, fsOps, dbEvents, dbImports >>

\* init_db called again on an open connection: executescript and the commit
\* of line 71 commit what the connection's transaction holds
init_db(c) ==
    /\ proc[c].pc = "idle"
    /\ dbEvents' = dbEvents \o txEvents[c]
    /\ dbImports' = dbImports \o txImports[c]
    /\ txEvents' = [txEvents EXCEPT ![c] = << >>]
    /\ txImports' = [txImports EXCEPT ![c] = << >>]
    /\ UNCHANGED << calls, fs, unreadable, fsOps, proc, hist >>

\* conn.close(), or the end of the process: an open transaction is rolled back
CloseConn(c) ==
    /\ proc[c].pc = "idle"
    /\ InTx(c)
    /\ txEvents' = [txEvents EXCEPT ![c] = << >>]
    /\ txImports' = [txImports EXCEPT ![c] = << >>]
    /\ UNCHANGED << calls, fs, unreadable, fsOps, dbEvents, dbImports, proc, hist >>

FsStep ==
    \/ \E p, q \in Paths : CopyFile(p, q)
    \/ \E p \in Paths : MakeUnreadable(p)
    \/ \E p \in Paths : MakeReadable(p)

RunStep(c) ==
    \/ \E root \in Roots : StartRun(c, root)
    \/ HashFails(c)
    \/ SkipFile(c)
    \/ NewFile(c)
    \/ ReadJson(c)
    \/ ParseRaises(c)
    \/ ParseRows(c)
    \/ InsertEvents(c)
    \/ InsertImport(c)
    \/ Commit(c)
    \/ Return(c)
    \/ Crash(c)

\* Runs one after the other on one connection, with changes to the
\* directories between them and a process that may be killed at any step.
Next == FsStep \/ RunStep("c1")

Spec == Init /\ [][Next]_vars

(***************************************************************************)
(* Two connections to one database file, each used for calls of            *)
(* ingest_export and init_db; their statements interleave.                 *)
(***************************************************************************)
RaceTrees ==
    {t \in [Paths -> Contents \cup {Absent}] :
        t[P1] = "good" /\ t[P2] \in {"good", "podcast", "zero"} /\ t[P3] \in {Absent, "podcast"}}

InitRace ==
    /\ fs \in RaceTrees
    /\ unreadable = {}
    /\ fsOps = 0
    /\ dbEvents = << >>
    /\ dbImports = << >>
    /\ txEvents = [c \in Conns |-> << >>]
    /\ txImports = [c \in Conns |-> << >>]
    /\ proc = [c \in Conns |-> IdleProc]
    /\ hist = << >>
    /\ NoCalls

RaceStep(c) ==
    \/ \E root \in Roots : StartRun(c, root)
    \/ SkipFile(c)
    \/ NewFile(c)
    \/ ReadJson(c)
    \/ ParseRows(c)
    \/ InsertEvents(c)
    \/ InsertImport(c)
    \/ UniqueViolation(c)
    \/ Busy(c)
    \/ Commit(c)
    \/ Return(c)
    \/ init_db(c)
    \/ CloseConn(c)

NextRace == \E c \in Conns : RaceStep(c)

SpecRace == InitRace /\ [][NextRace]_vars

(***************************************************************************)
(* report: the top-artists series of lines 341-343, computed from the rows *)
(* load_df returns.  A row is its artist_name and its ms_played; minutes   *)
(* is ms_played / 60000.0 (line 256), so the sums are compared in ms.      *)
(* Artist names are JStr(k), in alphabetical order of k.                   *)
(***************************************************************************)
\* the events of one call of report hold at most this many rows of artists
\* that may tie
MaxEvents == 3
\* head(15)
TopN == 15

\* rows of TopN - 1 artists, each with more minutes than any other artist
Heavy == [k \in 1..(TopN - 1) |-> [artist_name |-> JStr(10 + k), ms_played |-> 10 + k]]

LightRows == [artist_name : {JNull, JStr(1), JStr(2), JStr(3)}, ms_played : {1, 2}]

\* dropna(subset=["artist_name"])
dropna(rows) == SelectSeq(rows, LAMBDA r : r.artist_name # JNull)

RECURSIVE SumOf(_, _)
\* ["minutes"].sum() of the rows of one artist
SumOf(rows, a) ==
    IF rows = << >> THEN 0
    ELSE (IF Head(rows).artist_name = a THEN Head(rows).ms_played ELSE 0) + SumOf(Tail(rows), a)

\* groupby("artist_name")["minutes"].sum(): one entry per artist
groupby_sum(rows) ==
    {[artist_name |-> a, minutes |-> SumOf(rows, a)] :
        a \in {rows[k].artist_name : k \in 1..Len(rows)}}

RECURSIVE sort_values(_)
\* sort_values(ascending=False) with the default kind "quicksort", which is
\* not stable: the entries in descending order of minutes, entries with
\* equal minutes in any order
sort_values(groups) ==
    IF groups = {} THEN {<< >>}
    ELSE LET top == {g \in groups : \A o \in groups : o.minutes <= g.minutes}
         IN  UNION {{<< g >> \o rest : rest \in sort_values(groups \ {g})} : g \in top}

head(series, n) == SubSeq(series, 1, IF Len(series) < n THEN Len(series) ELSE n)

InitReport ==
    /\ fs = [p \in Paths |-> Absent]
    /\ unreadable = {}
    /\ fsOps = 0
    /\ dbEvents = << >>
    /\ dbImports = << >>
    /\ txEvents = [c \in Conns |-> << >>]
    /\ txImports = [c \in Conns |-> << >>]
    /\ proc = [c \in Conns |-> IdleProc]
    /\ hist = << >>
    /\ obj = << >>
    /\ event = NotCalled
    /\ \E n \in 0..MaxEvents : \E light \in [1..n -> LightRows] :
          df \in {light, light \o Heavy, Heavy \o light}
    /\ top_art = NotComputed

\* line 343
Report ==
    /\ ~top_art.done
    /\ \E series \in sort_values(groupby_sum(dropna(df))) :
          top_art' = [done |-> TRUE, series |-> head(series, TopN)]
    /\ UNCHANGED << fs, unreadable, fsOps, dbEvents, dbImports, txEvents, txImports, proc,
                    hist, obj, event, df >>

NextReport == Report

SpecReport == InitReport /\ [][NextReport]_vars

(***************************************************************************)
(* parse_event called on one decoded JSON object (line 200).  The objects  *)
(* are built key by key from the values a key may have in an export file.  *)
(***************************************************************************)
\* the object has no such key
Missing == [t |-> "missing", v |-> 0]

\* the object {k: v}, or {} when the key is missing
Field(k, v) == IF v.t = "missing" THEN << >> ELSE (k :> v)

\* null, the empty string and a name
Values(n) == {Missing, JNull, JStr(0), JStr(n)}

\* the wall-clock hours of the time line
Hours == 0..(DstOffUtc + DstOffset + 1)

\* objects with and without the keys that select the schema
SchemaObjs ==
    {Field("endTime", a) @@ Field("msPlayed", b) @@ Field("ts", c) @@ Field("ms_played", d) @@ x :
        a \in {Missing, Ts("loose", 12, FALSE, 0), Ts("bad", 0, FALSE, 0)},
        b \in {Missing, JNull, JInt(0), JInt(3), JStr(6)},
        c \in {Missing, Ts("iso", 8, TRUE, 0), Ts("loose", 8, FALSE, 0)},
        d \in {Missing, JInt(0), JInt(4)},
        x \in {<< >>,
               [trackName |-> JStr(2), artistName |-> JStr(6), albumName |-> JStr(10),
                platform |-> JStr(11), master_metadata_track_name |-> JStr(1),
                episode_name |-> JStr(3)]}}

NewBase == [ts |-> Ts("iso", 8, TRUE, 0), ms_played |-> JInt(3)]

\* new-schema objects over the keys the track name is taken from
TrackObjs ==
    {NewBase @@ Field("master_metadata_track_name", a) @@ Field("trackName", b)
        @@ Field("episode_name", c) @@ Field("episode_title", d)
        @@ Field("spotify_episode_uri", u) @@ Field("episode_show_name", w) :
        a \in Values(1), b \in Values(2), c \in Values(3), d \in Values(4),
        u \in {Missing, JNull, JStr(9)}, w \in {Missing, JStr(7)}}

\* new-schema objects over the keys the artist name is taken from
ArtistObjs ==
    {NewBase @@ Field("master_metadata_album_artist_name", a) @@ Field("artistName", b)
        @@ Field("episode_show_name", c) @@ Field("show_name", d) @@ Field("episode_name", w) :
        a \in Values(5), b \in Values(6), c \in Values(7), d \in Values(8),
        w \in {Missing, JStr(3)}}

\* new-schema objects over the keys of the album name and the platform
AlbumObjs ==
    {NewBase @@ Field("master_metadata_album_album_name", a) @@ Field("albumName", b)
        @@ Field("platform", c) :
        a \in Values(12), b \in Values(10), c \in Values(11)}

\* a timestamp written with or without an offset
Stamps ==
    {Ts(f, w, FALSE, 0) : f \in {"iso", "loose"}, w \in Hours}
        \cup {Ts(f, w, TRUE, o) : f \in {"iso", "loose"}, w \in Hours, o \in {-1, 0, 1, 2}}

\* objects of both schemas over the timestamps
TimeObjs ==
    {OldRec(t, JInt(3)) : t \in Stamps} \cup {NewRec(t, JInt(3)) : t \in Stamps}

Objs == SchemaObjs \cup TrackObjs \cup ArtistObjs \cup AlbumObjs \cup TimeObjs

InitParse ==
    /\ fs = [p \in Paths |-> Absent]
    /\ unreadable = {}
    /\ fsOps = 0
    /\ dbEvents = << >>
    /\ dbImports = << >>
    /\ txEvents = [c \in Conns |-> << >>]
    /\ txImports = [c \in Conns |-> << >>]
    /\ proc = [c \in Conns |-> IdleProc]
    /\ hist = << >>
    /\ obj \in Objs
    /\ event = NotCalled
    /\ df = << >>
    /\ top_art = NotComputed

\* e = parse_event(obj)
CallParseEvent ==
    /\ event = NotCalled
    /\ event' = parse_event(obj)
    /\ UNCHANGED << fs, unreadable, fsOps, dbEvents, dbImports, txEvents, txImports, proc,
                    hist, obj, df, top_art >>

NextParse == CallParseEvent

SpecParse == InitParse /\ [][NextParse]_vars

(***************************************************************************)
(* Properties of sequential runs (Spec)                                    *)
(***************************************************************************)
\* the files below the root and their permissions are the same at the
\* start of calls a and b
RootUnchanged(a, b) ==
    \A p \in Paths : RootOf(p) = a.root =>
        /\ a.fs0[p] = b.fs0[p]
        /\ (p \in a.unreadable0) = (p \in b.unreadable0)

Ended(r) == r.outcome \in {"returned", "raised"}

EventsOf(events, h) == SelectSeq(events, LAMBDA e : e.source_file_hash = h)
ImportsOf(imports, h) == {k \in 1..Len(imports) : imports[k].file_hash = h}

\* C1: when ingest_export has run to its end on a root and is called again on
\* the same root with the files unchanged, the second call inserts nothing
\* (neither in a transaction nor committed, at any point of the call); after
\* a first call that returned it decodes no file, and when it returns its
\* files_skipped is the first call's files_found.
C1_Idempotent ==
    \A k \in 1..(Len(hist) - 1) :
        LET a == hist[k]
            b == hist[k + 1]
        IN  (a.root = b.root /\ RootUnchanged(a, b) /\ Ended(a)) =>
              /\ b.outcome = "running" =>
                    /\ DbNow = b.db0
                    /\ txEvents[b.conn] = << >> /\ txImports[b.conn] = << >>
                    /\ a.outcome = "returned" => proc[b.conn].pc = "loop"
              /\ b.outcome # "running" => b.db1 = b.db0
              /\ (b.outcome = "returned" /\ a.outcome = "returned") =>
                    b.summary.files_skipped = a.summary.files_found

C1_Witness ==
    /\ Len(hist) = 2
    /\ hist[1].root = hist[2].root /\ RootUnchanged(hist[1], hist[2])
    /\ hist[1].outcome = "returned" /\ hist[2].outcome = "returned"
    /\ hist[1].summary.new_files_imported = 2
    /\ hist[1].summary.rows_inserted > 0
    /\ hist[2].summary.files_skipped = 2

\* the bytes of the file an imports row was written for
ImportedBytes(m) == hist[m.unit[1]].fs0[m.file_path]

\* C2: a step of ingest_export on a readable file whose bytes already have an
\* imports row written for another path counts the file as skipped and
\* inserts nothing (unless the process is killed at that step).
C2_DedupByContent ==
    [][\A c \in Conns :
        (/\ AtFile(c) /\ CurFile(c) \notin unreadable
         /\ \E k \in 1..Len(dbImports) :
               /\ ImportedBytes(dbImports[k]) = fs[CurFile(c)]
               /\ dbImports[k].file_path # CurFile(c)
         /\ proc'[c] # proc[c]
         /\ hist'[proc[c].run].outcome # "crashed")
        => /\ proc'[c].skipped = proc[c].skipped + 1
           /\ proc'[c].i = proc[c].i + 1
           /\ proc'[c].pc = "loop"
           /\ UNCHANGED << dbEvents, dbImports, txEvents, txImports >>]_vars

\* a copy below another root was skipped: nothing names its path
C2_Witness ==
    /\ Len(hist) = 2 /\ fsOps = 1
    /\ hist[1].root = "r1" /\ hist[2].root = "r2"
    /\ hist[2].outcome = "returned"
    /\ hist[2].summary.files_found = 1 /\ hist[2].summary.files_skipped = 1
    /\ hist[2].db1 = hist[2].db0
    /\ dbEvents # << >>
    /\ \A k \in 1..Len(dbImports) : dbImports[k].file_path # P3

\* C3: in every committed state no two imports rows have the same file_hash
\* and every events row's source_file_hash is the file_hash of exactly one
\* imports row.
C3_OneImportPerHash ==
    /\ \A j, k \in 1..Len(dbImports) :
          dbImports[j].file_hash = dbImports[k].file_hash => j = k
    /\ \A n \in 1..Len(dbEvents) :
          Cardinality(ImportsOf(dbImports, dbEvents[n].source_file_hash)) = 1

\* two files with the same bytes found by one run, one imported, one skipped
C3_Witness ==
    /\ Len(hist) >= 1 /\ hist[1].outcome = "returned"
    /\ hist[1].fs0[P1] = hist[1].fs0[P2]
    /\ hist[1].summary.files_found = 2
    /\ hist[1].summary.new_files_imported = 1
    /\ hist[1].summary.files_skipped = 1
    /\ Len(hist[1].db1.events) > 0

\* the rows a complete import of the bytes stores
RowsOfBytes(bytes) == Accepted(Dicts(json_loads_or_empty(bytes)))

RowsIn(events) == [k \in 1..Len(events) |-> events[k].row]

\* C4: when the process is killed during a run, the committed database holds,
\* for each file of the run, either all rows of the file with its one imports
\* row or no row and no imports row of it.
C4_CrashAtomic ==
    \A k \in 1..Len(hist) :
        hist[k].outcome = "crashed" =>
            \A p \in Paths :
                (RootOf(p) = hist[k].root /\ hist[k].fs0[p] # Absent) =>
                    LET h == sha256(hist[k].fs0[p])
                        ev == EventsOf(hist[k].db1.events, h)
                        im == ImportsOf(hist[k].db1.imports, h)
                    IN  \/ ev = << >> /\ im = {}
                        \/ /\ Cardinality(im) = 1
                           /\ RowsIn(ev) = RowsOfBytes(hist[k].fs0[p])
                           /\ \A n \in im :
                                 hist[k].db1.imports[n].rows_inserted = Len(ev)

\* killed with the rows of the second file inserted and not committed
C4_Witness ==
    \E k \in 1..Len(hist) :
        /\ hist[k].outcome = "crashed" /\ hist[k].intx
        /\ hist[k].at = 2
        /\ Len(hist[k].db1.events) > 0
        /\ Len(hist[k].db1.imports) = 1

\* every milliseconds field the object has is null, zero or negative
NonPositiveMs(d) ==
    \A k \in {"msPlayed", "ms_played"} \cap DOMAIN d :
        \/ d[k].t = "null"
        \/ d[k].t \in {"int", "numstr"} /\ d[k].v <= 0

\* the timestamp of the schema the object has the fields of is one its
\* parser reads
WellTimed(d) ==
    IF "endTime" \in DOMAIN d /\ "msPlayed" \in DOMAIN d THEN ParseOk(d["endTime"])
    ELSE IF "ts" \in DOMAIN d /\ ("ms_played" \in DOMAIN d \/ "msPlayed" \in DOMAIN d)
         THEN IsoParseOk(d["ts"])
    ELSE TRUE

HashAt(c, j) == sha256(fs[proc[c].files[j]])

\* C6: a running call has decoded or normalised a file only after its lookup
\* answered "not imported" for that file, and never a file whose digest had an
\* imports row: one present when the call began or committed by the call for
\* an earlier file.
C6_CheckBeforeParse ==
    \A c \in Conns :
        LET log == proc[c].log
        IN  \A k \in 1..Len(log) :
              log[k].op \in {"decode", "parse"} =>
                /\ \E j \in 1..(k - 1) : log[j] = [op |-> "new", i |-> log[k].i]
                /\ \A j \in 1..Len(log) : log[j] # [op |-> "skip", i |-> log[k].i]
                /\ ImportsOf(hist[proc[c].run].db0.imports, HashAt(c, log[k].i)) = {}
                /\ \A j \in 1..Len(log) :
                      (log[j].op = "commit" /\ log[j].i < log[k].i)
                          => HashAt(c, log[j].i) # HashAt(c, log[k].i)

\* the first file is skipped as imported, the second is decoded and parsed
C6_Witness ==
    /\ Len(proc["c1"].log) >= 4
    /\ proc["c1"].log[1] = [op |-> "skip", i |-> 1]
    /\ proc["c1"].log[2] = [op |-> "new", i |-> 2]
    /\ proc["c1"].log[3] = [op |-> "decode", i |-> 2]
    /\ proc["c1"].log[4] = [op |-> "parse", i |-> 2]

\* the bytes are not JSON, not a JSON array, or an array no record of which
\* is accepted
NoAccepted(bytes) ==
    \/ ~FileJson(bytes).valid
    \/ ~FileJson(bytes).list
    \/ \A k \in 1..Len(FileJson(bytes).items) :
          IsDict(FileJson(bytes).items[k]) => parse_event(FileJson(bytes).items[k]) = NotAnEvent

InUnit(c) == proc[c].pc \in {"read", "parse", "insert_events", "insert_import", "commit"}

\* C7: a step of a call on a new file that yields no accepted record never
\* raises and inserts no events row; the commit of the file adds exactly one
\* imports row, with the file's digest and rows_inserted = 0, counts the file
\* in new_files and moves the loop to the next file.
C7_ZeroRowFile ==
    [][\A c \in Conns :
        (/\ InUnit(c) /\ NoAccepted(fs[CurFile(c)])
         /\ proc'[c] # proc[c]
         /\ hist'[proc[c].run].outcome # "crashed")
        => /\ hist'[proc[c].run].outcome = "running"
           /\ dbEvents' = dbEvents /\ txEvents'[c] = << >>
           /\ proc[c].pc = "commit" =>
                 /\ Len(dbImports') = Len(dbImports) + 1
                 /\ dbImports'[Len(dbImports')].file_hash = sha256(fs[CurFile(c)])
                 /\ dbImports'[Len(dbImports')].file_path = CurFile(c)
                 /\ dbImports'[Len(dbImports')].rows_inserted = 0
                 /\ proc'[c].new_files = proc[c].new_files + 1
                 /\ proc'[c].rows_total = proc[c].rows_total
                 /\ proc'[c].i = proc[c].i + 1
                 /\ proc'[c].pc = "loop"]_vars

\* a file that is not JSON was imported with no rows and the next file of the
\* run was imported after it
C7_Witness ==
    /\ Len(hist) = 1 /\ hist[1].outcome = "returned"
    /\ hist[1].fs0[P1] = "notjson"
    /\ hist[1].summary.new_files_imported = 2
    /\ Len(dbImports) = 2
    /\ dbImports[1].file_path = P1 /\ dbImports[1].rows_inserted = 0
    /\ EventsOf(dbEvents, sha256("notjson")) = << >>
    /\ dbImports[2].file_path = P2 /\ dbImports[2].rows_inserted > 0

\* C8 as stated: no record makes parse_event raise, so no call of
\* ingest_export ends by an exception of parse_event.
C8_RecordNeverFatal ==
    \A k \in 1..Len(hist) : ~(hist[k].outcome = "raised" /\ hist[k].cause = "record")

\* C9 as stated: a file that cannot be read when it is hashed does not end
\* the call.
C9_ReadErrorNotFatal ==
    \A k \in 1..Len(hist) : ~(hist[k].outcome = "raised" /\ hist[k].cause = "read_error")

\* the rows of a table that the statements of call k inserted
OfRun(table, k) == SelectSeq(table, LAMBDA r : r.unit[1] = k)

\* the files the call found
FoundBy(r) == find_candidate_files(r.fs0, r.root)

\* the distinct contents among the found files that had no imports row when
\* the call began
NewContents(r) ==
    {r.fs0[FoundBy(r)[j]] : j \in 1..Len(FoundBy(r))}
        \ {b \in Contents : ImportsOf(r.db0.imports, sha256(b)) # {}}

\* C15: the summary of every call that returns counts each found file once,
\* as imported or as skipped; new_files_imported is the number of imports
\* rows and rows_inserted the number of events rows the call added; of the
\* found files with the same new bytes one is imported, the others skipped.
C15_SummaryAccounting ==
    \A k \in 1..Len(hist) :
        hist[k].outcome = "returned" =>
            LET r == hist[k]
                s == r.summary
            IN  /\ s.files_found = Len(FoundBy(r))
                /\ s.files_found = s.new_files_imported + s.files_skipped
                /\ s.new_files_imported = Len(r.db1.imports) - Len(r.db0.imports)
                /\ s.new_files_imported = Len(OfRun(r.db1.imports, k))
                /\ s.rows_inserted = Len(r.db1.events) - Len(r.db0.events)
                /\ s.rows_inserted = Len(OfRun(r.db1.events, k))
                /\ s.new_files_imported = Cardinality(NewContents(r))
                /\ \A b \in NewContents(r) :
                      Cardinality(ImportsOf(OfRun(r.db1.imports, k), sha256(b))) = 1

\* two found files with the same new bytes: one imported, one skipped; the
\* next call on the root skips both
C15_Witness ==
    /\ Len(hist) = 2
    /\ hist[1].outcome = "returned" /\ hist[2].outcome = "returned"
    /\ hist[1].root = "r1" /\ hist[2].root = "r1"
    /\ hist[1].fs0[P1] = "good" /\ hist[1].fs0[P2] = "good"
    /\ hist[1].summary = [files_found |-> 2, new_files_imported |-> 1,
                          files_skipped |-> 1, rows_inserted |-> 2]
    /\ hist[2].summary = [files_found |-> 2, new_files_imported |-> 0,
                          files_skipped |-> 2, rows_inserted |-> 0]

IsPrefix(s, t) == Len(s) <= Len(t) /\ SubSeq(t, 1, Len(s)) = s

\* the step adds the entry to the log of the call on c
Logs(c, op) == proc'[c].log = Append(proc[c].log, [op |-> op, i |-> proc[c].i])

\* C16: every step keeps the committed events and imports rows as they are
\* and in place, adding rows at the end at most; the step that skips a file
\* as already imported changes neither table nor the transaction; a file is
\* taken as new only when no imports row has its digest, and events rows are
\* inserted only for a file taken as new, under that file's digest.
C16_AppendOnly ==
    [][/\ IsPrefix(dbEvents, dbEvents')
       /\ IsPrefix(dbImports, dbImports')
       /\ \A c \in Conns :
            /\ Logs(c, "skip") =>
                  UNCHANGED << dbEvents, dbImports, txEvents, txImports >>
            /\ Logs(c, "new") =>
                  ImportsOf(visibleImports(c), sha256(fs[CurFile(c)])) = {}
            /\ (txEvents'[c] # txEvents[c] /\ txEvents'[c] # << >>) =>
                  /\ IsPrefix(txEvents[c], txEvents'[c])
                  /\ \E j \in 1..Len(proc[c].log) :
                        proc[c].log[j] = [op |-> "new", i |-> proc[c].i]
                  /\ \A n \in (Len(txEvents[c]) + 1)..Len(txEvents'[c]) :
                        /\ txEvents'[c][n].source_file_hash = sha256(fs[CurFile(c)])
                        /\ txEvents'[c][n].unit = Unit(c)
       /\ dbEvents' # dbEvents =>
            \E c \in Conns : txEvents[c] # << >> /\ dbEvents' = dbEvents \o txEvents[c]]_vars

\* the second call skipped an imported file and then added the rows of a new
\* file after the rows that were there
C16_Witness ==
    /\ Len(hist) = 2 /\ hist[2].outcome = "returned"
    /\ hist[2].summary.files_skipped = 1 /\ hist[2].summary.new_files_imported = 1
    /\ hist[2].db0.events # << >>
    /\ Len(hist[2].db1.events) > Len(hist[2].db0.events)
    /\ IsPrefix(hist[2].db0.events, dbEvents)
    /\ IsPrefix(hist[2].db0.imports, dbImports)

(***************************************************************************)
(* Properties of racing connections (SpecRace)                             *)
(***************************************************************************)
\* the statement that inserted the row belongs to a unit that ended with an
\* sqlite3 error
OfFailedUnit(r) ==
    /\ hist[r.unit[1]].outcome = "raised"
    /\ hist[r.unit[1]].cause = "storage"
    /\ hist[r.unit[1]].at = r.unit[2]

\* C10 as stated: no events row and no imports row inserted for a file whose
\* unit failed at the storage layer is ever committed.
C10_NoPartialState ==
    /\ \A n \in 1..Len(dbEvents) : ~OfFailedUnit(dbEvents[n])
    /\ \A n \in 1..Len(dbImports) : ~OfFailedUnit(dbImports[n])

\* C11 as stated: a call that a storage failure ends hands its caller the
\* summary counted so far: files_found of the call's file list, the files
\* imported and skipped before the failing one, and the rows of the imported
\* files.
C11_PartialSummary ==
    \A k \in 1..Len(hist) :
        (hist[k].outcome = "raised" /\ hist[k].cause = "storage") =>
            /\ hist[k].summary.files_found =
                  Len(find_candidate_files(hist[k].fs0, hist[k].root))
            /\ hist[k].summary.new_files_imported = Len(OfRun(hist[k].db1.imports, k))
            /\ hist[k].summary.new_files_imported + hist[k].summary.files_skipped
                  = hist[k].at - 1
            /\ hist[k].summary.rows_inserted = Len(OfRun(hist[k].db1.events, k))

NoTwoImports(imports) ==
    \A j, k \in 1..Len(imports) : imports[j].file_hash = imports[k].file_hash => j = k

\* C12: with two connections running ingest_export on the same database, no
\* step leaves two committed imports rows with one file_hash; and a step of a
\* call that is about to insert the imports row of a digest another call has
\* committed meanwhile ends the call with an sqlite3 error and inserts and
\* commits no imports row.
C12_RaceNoDuplicate ==
    [][/\ NoTwoImports(dbImports')
       /\ \A c \in Conns :
            (/\ proc[c].pc = "insert_import"
             /\ ImportsOf(dbImports, proc[c].h) # {}
             /\ proc'[c] # proc[c])
            => /\ hist'[proc[c].run].outcome = "raised"
               /\ hist'[proc[c].run].cause = "storage"
               /\ txImports' = txImports
               /\ dbImports' = dbImports]_vars

\* both calls found the digest new; one committed it, the other's insert was
\* refused while no connection held the write lock
C12_Witness ==
    \E j, k \in 1..Len(hist) :
        /\ j # k
        /\ hist[k].outcome = "raised" /\ hist[k].cause = "storage"
        /\ \A c \in Conns : hist[k].conn = c => txImports[c] = << >> /\ txEvents[c] # << >>
        /\ \E n \in 1..Len(hist[k].db1.imports) :
              /\ hist[k].db1.imports[n].unit[1] = j
              /\ hist[k].db1.imports[n].file_hash = sha256(hist[k].fs0[hist[k].db1.imports[n].file_path])
              /\ \E m \in 1..Len(txEvents[hist[k].conn]) :
                    txEvents[hist[k].conn][m].source_file_hash = hist[k].db1.imports[n].file_hash
        /\ hist[j].outcome = "returned"
        /\ NoTwoImports(dbImports)

RECURSIVE TotalRowsInserted(_)
TotalRowsInserted(imports) ==
    IF imports = << >> THEN 0
    ELSE Head(imports).rows_inserted + TotalRowsInserted(Tail(imports))

\* C14 as stated: in every committed state each imports row's rows_inserted
\* is the number of events rows with its file_hash, and the rows_inserted of
\* all imports rows add up to the number of events rows.
C14_CountMatchesRows ==
    /\ \A n \in 1..Len(dbImports) :
          dbImports[n].rows_inserted = Len(EventsOf(dbEvents, dbImports[n].file_hash))
    /\ TotalRowsInserted(dbImports) = Len(dbEvents)

(***************************************************************************)
(* Properties of report (SpecReport)                                       *)
(***************************************************************************)
\* index in df of the first row of the artist
FirstSeen(a) == CHOOSE k \in 1..Len(df) : df[k].artist_name = a /\ \A j \in 1..(k - 1) : df[j].artist_name # a

\* C13 as stated: artists with equal summed minutes stand in the series in
\* the order of their first rows in df, and of artists with equal minutes
\* one left out by head(15) comes later in df than each one kept.
C13_TiesByInputOrder ==
    top_art.done =>
        LET s == top_art.series
            kept == {s[k].artist_name : k \in 1..Len(s)}
        IN  /\ \A j, k \in 1..Len(s) :
                  (j < k /\ s[j].minutes = s[k].minutes)
                      => FirstSeen(s[j].artist_name) < FirstSeen(s[k].artist_name)
            /\ \A g \in groupby_sum(dropna(df)) : \A k \in 1..Len(s) :
                  (g.artist_name \notin kept /\ g.minutes = s[k].minutes)
                      => FirstSeen(s[k].artist_name) < FirstSeen(g.artist_name)

(***************************************************************************)
(* Properties of parse_event (SpecParse)                                   *)
(***************************************************************************)
HasOld(o) == {"endTime", "msPlayed"} \subseteq DOMAIN o
HasNew(o) == "ts" \in DOMAIN o /\ {"ms_played", "msPlayed"} \cap DOMAIN o # {}

\* the milliseconds the branch converts: the first of the fields that is
\* neither missing, null, zero nor empty, else 0
MsOf(o, keys) ==
    LET set == {k \in 1..Len(keys) : Truthy(Get(o, keys[k]))}
    IN  IF set = {} THEN JInt(0) ELSE Get(o, keys[CHOOSE k \in set : \A j \in set : k <= j])

\* what a branch answers for a timestamp its parser reads or not and the
\* milliseconds value: an exception, None, or a row of that number
Answers(e, stampOk, ms) ==
    /\ e.kind = "raise" <=> (~stampOk \/ ms.t \notin {"int", "numstr"})
    /\ e.kind = "none" <=> (stampOk /\ ms.t \in {"int", "numstr"} /\ ms.v <= 0)
    /\ e.kind = "row" => e.row.ms_played = ms.v

\* C17: an object with both endTime and msPlayed is answered by the old
\* branch alone, whatever other fields it has: from endTime and msPlayed, as
\* None when the old branch rejects it, and an accepted row is tagged
\* streaming_history_old with content_type music and no album_name and
\* platform.  Any other object with ts and ms_played or msPlayed is answered
\* by the new branch, its row tagged streaming_history_new.  Every other
\* object is answered None.
C17_SchemaPriority ==
    event # NotCalled =>
        /\ HasOld(obj) =>
              /\ Answers(event, ParseOk(obj["endTime"]), MsOf(obj, << "msPlayed" >>))
              /\ event.kind = "row" =>
                    /\ event.row.raw_source = "streaming_history_old"
                    /\ event.row.content_type = "music"
                    /\ event.row.album_name = JNull
                    /\ event.row.platform = JNull
                    /\ event.row.track_name = Get(obj, "trackName")
                    /\ event.row.artist_name = Get(obj, "artistName")
        /\ (~HasOld(obj) /\ HasNew(obj)) =>
              /\ Answers(event, IsoParseOk(obj["ts"]), MsOf(obj, << "ms_played", "msPlayed" >>))
              /\ event.kind = "row" => event.row.raw_source = "streaming_history_new"
        /\ (~HasOld(obj) /\ ~HasNew(obj)) => event = NotAnEvent

\* an object with the fields of both schemas that the old branch rejects and
\* the new branch would accept is answered None
C17_Witness ==
    /\ event = NotAnEvent
    /\ HasOld(obj) /\ HasNew(obj)
    /\ ParseOk(obj["endTime"]) /\ obj["msPlayed"] = JInt(0)
    /\ IsoParseOk(obj["ts"]) /\ "ms_played" \in DOMAIN obj /\ obj["ms_played"] = JInt(4)

NewRow == event.kind = "row" /\ event.row.raw_source = "streaming_history_new"

PodcastKeys == {"spotify_episode_uri", "episode_name", "episode_show_name"}

\* C18 as stated: the row of a new-schema object has content_type podcast
\* when the object has one of the keys spotify_episode_uri, episode_name,
\* episode_show_name, and music otherwise.
C18_PodcastIfPresent ==
    NewRow => (event.row.content_type = "podcast" <=> PodcastKeys \cap DOMAIN obj # {})

\* C18 amended: the row of a new-schema object has content_type podcast when
\* one of the three fields has a value that is neither null nor empty, and
\* music otherwise, whichever fields gave track_name and artist_name.
C18_PodcastIfValued ==
    NewRow =>
        /\ event.row.content_type \in {"podcast", "music"}
        /\ event.row.content_type = "podcast"
              <=> \E k \in PodcastKeys \cap DOMAIN obj : Truthy(obj[k])

\* an object that has the episode keys, all holding null, and a rich-metadata
\* track name gives a music row
C18_Witness ==
    /\ NewRow
    /\ event.row.content_type = "music"
    /\ {"spotify_episode_uri", "episode_name"} \subseteq DOMAIN obj
    /\ obj["spotify_episode_uri"] = JNull /\ obj["episode_name"] = JNull
    /\ Truthy(Get(obj, "master_metadata_track_name"))
    /\ event.row.track_name = obj["master_metadata_track_name"]

\* the fields of the keys from index k on hold no name: each is missing,
\* null or empty
NoneFrom(o, keys, k) == \A j \in k..Len(keys) : ~Truthy(Get(o, keys[j]))

\* the name taken from the keys in their order: the first field that holds a
\* name; when none does, what the last key's lookup gives
TakenFrom(o, keys, name) ==
    /\ \A k \in 1..Len(keys) :
          (Truthy(Get(o, keys[k])) /\ \A j \in 1..(k - 1) : ~Truthy(Get(o, keys[j])))
              => name = o[keys[k]]
    /\ NoneFrom(o, keys, 1) => name = Get(o, keys[Len(keys)])

\* C19: in the row of a new-schema object track_name is the rich-metadata
\* track name when the object holds one, else the legacy one, and an episode
\* name only when the object holds neither; artist_name likewise with the
\* show names; album_name is the rich-metadata album name, else the legacy
\* one.
C19_NameFallback ==
    NewRow =>
        /\ TakenFrom(obj, << "master_metadata_track_name", "trackName",
                             "episode_name", "episode_title" >>, event.row.track_name)
        /\ TakenFrom(obj, << "master_metadata_album_artist_name", "artistName",
                             "episode_show_name", "show_name" >>, event.row.artist_name)
        /\ TakenFrom(obj, << "master_metadata_album_album_name", "albumName" >>,
                     event.row.album_name)
        /\ (Truthy(event.row.track_name)
              /\ event.row.track_name \in {Get(obj, "episode_name"), Get(obj, "episode_title")})
              => NoneFrom(obj, << "master_metadata_track_name", "trackName" >>, 1)
        /\ (Truthy(event.row.artist_name)
              /\ event.row.artist_name \in {Get(obj, "episode_show_name"), Get(obj, "show_name")})
              => NoneFrom(obj, << "master_metadata_album_artist_name", "artistName" >>, 1)

\* a record with a rich-metadata track name and an episode name keeps the
\* track name, and its artist, of which it names none, is the show
C19_Witness ==
    /\ NewRow
    /\ Truthy(Get(obj, "master_metadata_track_name")) /\ Truthy(Get(obj, "episode_name"))
    /\ event.row.track_name = obj["master_metadata_track_name"]
    /\ event.row.track_name # obj["episode_name"]
    /\ Truthy(Get(obj, "episode_show_name"))
    /\ event.row.artist_name = obj["episode_show_name"]

\* the Paris civil time of the instant of UTC hour u, as to_iso writes it
ParisCivil(u) == to_iso(u + ParisOffsetAtUtc(u), ParisOffsetAtUtc(u))

\* the timestamp the branch that answers the object reads
Stamp(o) == IF HasOld(o) THEN o["endTime"] ELSE o["ts"]

\* C20 as stated: in every row played_at_utc is written in UTC and
\* played_at_local is the Paris civil time of that instant; an old-schema
\* timestamp without offset gives played_at_local with the written wall
\* clock and played_at_utc as that minus the Paris offset; a new-schema
\* timestamp without offset gives played_at_utc with the written wall clock
\* and played_at_local as that plus the Paris offset.
C20_LocalIsParisCivil ==
    event.kind = "row" =>
        LET r == event.row
        IN  /\ r.played_at_utc.off = 0
            /\ r.played_at_local = ParisCivil(r.played_at_utc.wall)
            /\ (HasOld(obj) /\ ~Stamp(obj).hasOff) =>
                  /\ r.played_at_local.wall = Stamp(obj).wall
                  /\ r.played_at_utc.wall = Stamp(obj).wall - r.played_at_local.off
            /\ (~HasOld(obj) /\ ~Stamp(obj).hasOff) =>
                  /\ r.played_at_utc.wall = Stamp(obj).wall
                  /\ r.played_at_local.wall = Stamp(obj).wall + r.played_at_local.off

====
